---- MODULE Spec2Model ----
(***************************************************************************)
(* Model of financial_tracker.py: a personal finance ledger kept in two    *)
(* SQLite relations (categories, transactions) and exposed as five tools.  *)
(*                                                                         *)
(* Modelling conventions                                                   *)
(*  - amounts are integers counting hundredths (REAL 20.5 is 2050);        *)
(*  - an optional value (an argument that may be None, a file that may    *)
(*    not exist) is a sequence of length 0 or 1;                           *)
(*  - the order SQL leaves open among rows with equal ORDER BY keys and    *)
(*    among the groups of GROUP BY is a choice made at each query; the     *)
(*    scan of categories returns the names in rowid order.                 *)
(***************************************************************************)
EXTENDS Integers, Sequences, FiniteSets, TLC

VARIABLES
    categories,     \* relation categories: the names, in rowid order
    transactions,   \* relation transactions: the rows, in rowid order
    clock,          \* CURRENT_TIMESTAMP when it was last read, in seconds
    export_file,    \* transactions_export.json: <<>> when absent, else <<its array>>
    open_conns,     \* number of sqlite3 connections opened and not closed
    call,           \* the last call: [op, arg]
    ret,            \* the string the last tool call returned
    locals          \* the local variables of the last call at its return

vars == <<categories, transactions, clock, export_file, open_conns, call, ret, locals>>

----------------------------------------------------------------------------
(* Bounds of the model *)

MaxTx == 2
MaxOpenConns == 1

(* Inputs of the calls *)

Amounts == {2050, -2050}
Descriptions == {"lunch"}
CategoryArgs == {"Food", "food", ""}
OptCategoryArgs == {<<>>} \cup {<<c>> : c \in CategoryArgs}
NameArgs == {"", " \t", "Food", "food"}
FormatArgs == {"json", "Json", "xml"}

\* seconds between two reads of CURRENT_TIMESTAMP: none, or some
Elapsed == {0, 1}

----------------------------------------------------------------------------
(* Constants of the program *)

default_categories ==
    <<"Income", "Food", "Transportation", "Utilities", "Entertainment", "Other">>

----------------------------------------------------------------------------
(* Text *)

Range(s) == {s[i] : i \in 1..Len(s)}

Whitespace == {" ", "\t", "\n", "\r", "\f"}

RECURSIVE LStrip(_)
LStrip(s) == IF s # "" /\ Head(s) \in Whitespace THEN LStrip(Tail(s)) ELSE s

RECURSIVE RStrip(_)
RStrip(s) ==
    IF s # "" /\ SubSeq(s, Len(s), Len(s)) \in Whitespace
    THEN RStrip(SubSeq(s, 1, Len(s) - 1))
    ELSE s

\* a strip() that was left out
Strip_Nothing(s) == s

\* str.strip()
Strip(s) == RStrip(LStrip(s))

Upper == <<"A", "B", "C", "D", "E", "F", "G", "H", "I", "J", "K", "L", "M",
           "N", "O", "P", "Q", "R", "S", "T", "U", "V", "W", "X", "Y", "Z">>
LowerOf == <<"a", "b", "c", "d", "e", "f", "g", "h", "i", "j", "k", "l", "m",
             "n", "o", "p", "q", "r", "s", "t", "u", "v", "w", "x", "y", "z">>

LowerChar(c) ==
    IF c \in Range(Upper)
    THEN LowerOf[CHOOSE i \in 1..Len(Upper) : Upper[i] = c]
    ELSE c

\* a comparison that keeps the letter case
Lower_Identity(s) == s

\* str.lower()
RECURSIVE Lower(_)
Lower(s) == IF s = "" THEN "" ELSE LowerChar(Head(s)) \o Lower(Tail(s))

\* sep.join(strs)
RECURSIVE Join(_, _)
Join(strs, sep) ==
    IF strs = <<>> THEN ""
    ELSE IF Len(strs) = 1 THEN strs[1]
    ELSE strs[1] \o sep \o Join(Tail(strs), sep)

Abs(n) == IF n < 0 THEN -n ELSE n

TwoDigits(n) == IF n < 10 THEN "0" \o ToString(n) ELSE ToString(n)

\* "{:.2f}".format(amount)
FormatMoney(amount) ==
    (IF amount < 0 THEN "-" ELSE "")
        \o ToString(Abs(amount) \div 100) \o "." \o TwoDigits(Abs(amount) % 100)

\* str(amount) of a float: the shortest digits, at least one after the point
FormatFloat(amount) ==
    (IF amount < 0 THEN "-" ELSE "")
        \o ToString(Abs(amount) \div 100) \o "."
        \o (IF Abs(amount) % 10 = 0
            THEN ToString((Abs(amount) % 100) \div 10)
            ELSE TwoDigits(Abs(amount) % 100))

----------------------------------------------------------------------------
(* Storage *)

Connect(n) == n + 1
Close(n) == n - 1

\* SELECT name FROM categories: the scan of the table, in rowid order
get_categories == categories

\* a membership test that ignores the letter case
IsValidCategory_IgnoringCase(category, cats) ==
    Lower(category) \in {Lower(c) : c \in Range(cats)}

\* category in categories
IsValidCategory(category, cats) == category \in Range(cats)

\* the UNIQUE constraint on categories.name (BINARY collation)
ViolatesUnique(cats, name) == name \in Range(cats)

\* an INSERT that ignores nothing
InsertOrIgnore_Always(cats, name) == Append(cats, name)

\* INSERT OR IGNORE INTO categories (name) VALUES (?)
InsertOrIgnore(cats, name) ==
    IF ViolatesUnique(cats, name) THEN cats ELSE Append(cats, name)

RECURSIVE SeedDefaults(_, _)
SeedDefaults(cats, names) ==
    IF names = <<>> THEN cats
    ELSE SeedDefaults(InsertOrIgnore(cats, Head(names)), Tail(names))

Injections(n) == {f \in [1..n -> 1..n] : \A i, j \in 1..n : f[i] = f[j] => i = j}

\* the orders in which ORDER BY timestamp DESC can return the rows
OrderByTimestampDesc(rows) ==
    { [i \in 1..Len(rows) |-> rows[f[i]]] :
        f \in { g \in Injections(Len(rows)) :
                  \A i \in 1..(Len(rows) - 1) :
                      rows[g[i]].timestamp >= rows[g[i + 1]].timestamp } }

\* a SUM that drops the sign of the amounts
RECURSIVE SumAmounts_Unsigned(_)
SumAmounts_Unsigned(rows) ==
    IF rows = <<>> THEN 0
    ELSE (IF Head(rows).amount < 0 THEN -Head(rows).amount ELSE Head(rows).amount)
            + SumAmounts_Unsigned(Tail(rows))

RECURSIVE SumAmounts(_)
SumAmounts(rows) ==
    IF rows = <<>> THEN 0 ELSE Head(rows).amount + SumAmounts(Tail(rows))

\* WHERE category = ?
WhereCategory(rows, c) == LET Test(t) == t.category = c IN SelectSeq(rows, Test)

\* SELECT category, SUM(amount) FROM transactions GROUP BY category
GroupByCategory(rows) ==
    LET groups == {t.category : t \in Range(rows)}
        n == Cardinality(groups)
    IN  { [i \in 1..n |-> <<g[i], SumAmounts(WhereCategory(rows, g[i]))>>] :
            g \in {h \in [1..n -> groups] : \A i, j \in 1..n : h[i] = h[j] => i = j} }

\* SELECT amount, category, description
Columns(rows) ==
    [i \in 1..Len(rows) |-> <<rows[i].amount, rows[i].category, rows[i].description>>]

----------------------------------------------------------------------------
(* Messages *)

InvalidCategoryMsg(cats) ==
    "Invalid category. Please use one of: " \o Join(cats, ", ")

TransactionAddedMsg(amount, category, description) ==
    "Transaction added: " \o FormatFloat(amount)
        \o " (" \o category \o ") - " \o description

TransactionLine(row) ==
    "$" \o FormatMoney(row[1]) \o " (" \o row[2] \o ") - " \o row[3]

BreakdownLine(pair) == pair[1] \o ": $" \o FormatMoney(pair[2])

BalanceMsg(total, by_category) ==
    IF by_category = <<>>
    THEN "No transactions recorded yet."
    ELSE Join(<<"Current balance: $" \o FormatMoney(total), "\nBreakdown by category:">>
                \o [i \in 1..Len(by_category) |-> BreakdownLine(by_category[i])],
              "\n")

\* if category: (neither None nor the empty string)
Truthy(category) == category # <<>> /\ category[1] # ""

\* an empty listing reported with the generic message whatever the filter
ListingMsg_Generic(category, rows) ==
    IF rows = <<>>
    THEN "No transactions recorded yet."
    ELSE Join([i \in 1..Len(rows) |-> "$" \o FormatMoney(rows[i][1]) \o " ("
                 \o rows[i][2] \o ") - " \o rows[i][3]], "\n")

ListingMsg(category, rows) ==
    IF rows = <<>>
    THEN IF Truthy(category) THEN "No transactions found."
                             ELSE "No transactions recorded yet."
    ELSE Join([i \in 1..Len(rows) |-> TransactionLine(rows[i])], "\n")

----------------------------------------------------------------------------
(* Operations *)

Init ==
    /\ categories = default_categories
    /\ transactions = <<>>
    /\ clock = 0
    /\ export_file = <<>>
    /\ open_conns = 0
    /\ call = [op |-> "initialize_db", arg |-> <<>>]
    /\ ret = ""
    /\ locals = [default_categories |-> default_categories]

initialize_db ==
    /\ categories' = SeedDefaults(categories, default_categories)
    /\ open_conns' = Close(Connect(open_conns))
    /\ call' = [op |-> "initialize_db", arg |-> <<>>]
    /\ ret' = ""
    /\ locals' = [default_categories |-> default_categories]
    /\ UNCHANGED <<transactions, clock, export_file>>

add_transaction(amount, category, description) ==
    LET cats == get_categories IN
        /\ call' = [op |-> "add_transaction", arg |-> <<amount, category, description>>]
        /\ locals' = [categories |-> cats]
        /\ IF ~IsValidCategory(category, cats)
           THEN /\ ret' = InvalidCategoryMsg(cats)
                /\ open_conns' = Close(Connect(open_conns))
                /\ UNCHANGED <<categories, transactions, clock, export_file>>
           ELSE /\ Len(transactions) < MaxTx
                /\ \E elapsed \in Elapsed : clock' = clock + elapsed
                /\ transactions' = Append(transactions,
                        [id |-> Len(transactions) + 1, amount |-> amount,
                         category |-> category, description |-> description,
                         timestamp |-> clock'])
                /\ open_conns' = Close(Connect(Close(Connect(open_conns))))
                /\ ret' = TransactionAddedMsg(amount, category, description)
                /\ UNCHANGED <<categories, export_file>>

get_balance ==
    \E by_category \in GroupByCategory(transactions) :
        LET total == SumAmounts(transactions) IN
        /\ call' = [op |-> "get_balance", arg |-> <<>>]
        /\ locals' = [total |-> total, by_category |-> by_category]
        /\ open_conns' = Close(Connect(open_conns))
        /\ ret' = BalanceMsg(total, by_category)
        /\ UNCHANGED <<categories, transactions, clock, export_file>>

list_transactions(category) ==
    /\ call' = [op |-> "list_transactions", arg |-> <<category>>]
    /\ IF Truthy(category)
       THEN LET cats == get_categories IN
              IF ~IsValidCategory(category[1], cats)
              THEN /\ open_conns < MaxOpenConns
                   /\ ret' = InvalidCategoryMsg(cats)
                   /\ locals' = [categories |-> cats]
                   /\ open_conns' = Close(Connect(Connect(open_conns)))
              ELSE \E rows \in OrderByTimestampDesc(WhereCategory(transactions, category[1])) :
                   /\ locals' = [categories |-> cats, transactions |-> Columns(rows)]
                   /\ open_conns' = Close(Close(Connect(Connect(open_conns))))
                   /\ ret' = ListingMsg(category, Columns(rows))
       ELSE \E rows \in OrderByTimestampDesc(transactions) :
              /\ locals' = [transactions |-> Columns(rows)]
              /\ open_conns' = Close(Connect(open_conns))
              /\ ret' = ListingMsg(category, Columns(rows))
    /\ UNCHANGED <<categories, transactions, clock, export_file>>

add_category(name) ==
    /\ call' = [op |-> "add_category", arg |-> <<name>>]
    /\ locals' = [name |-> name]
    /\ IF name = "" \/ Len(Strip(name)) = 0
       THEN /\ ret' = "Category name cannot be empty."
            /\ UNCHANGED <<categories, open_conns>>
       ELSE IF ViolatesUnique(categories, name)
       THEN /\ ret' = "Category '" \o name \o "' already exists."
            /\ open_conns' = Close(Connect(open_conns))
            /\ UNCHANGED categories
       ELSE /\ categories' = Append(categories, name)
            /\ open_conns' = Close(Connect(open_conns))
            /\ ret' = "Category '" \o name \o "' added successfully."
    /\ UNCHANGED <<transactions, clock, export_file>>

export_data(format) ==
    /\ call' = [op |-> "export_data", arg |-> <<format>>]
    /\ IF Lower(format) # "json"
       THEN /\ ret' = "Only JSON format is currently supported."
            /\ locals' = [format |-> format]
            /\ UNCHANGED <<export_file, open_conns>>
       ELSE \E rows \in OrderByTimestampDesc(transactions) :
            /\ locals' = [format |-> format, transactions |-> rows]
            /\ open_conns' = Close(Connect(open_conns))
            /\ export_file' = <<rows>>
            /\ ret' = "Data exported to transactions_export.json"
    /\ UNCHANGED <<categories, transactions, clock>>

AddTransaction ==
    \E amount \in Amounts, category \in CategoryArgs, description \in Descriptions :
        add_transaction(amount, category, description)

ListTransactions == \E category \in OptCategoryArgs : list_transactions(category)

AddCategory == \E name \in NameArgs : add_category(name)

ExportData == \E format \in FormatArgs : export_data(format)

Next ==
    \/ initialize_db
    \/ AddTransaction
    \/ get_balance
    \/ ListTransactions
    \/ AddCategory
    \/ ExportData

Spec == Init /\ [][Next]_vars

----------------------------------------------------------------------------
(* Properties *)

IsAdd == call.op = "add_transaction"
IsList == call.op = "list_transactions"

Stored(c) == {k \in 1..Len(transactions) : transactions[k].category = c}

\* the sum of the amounts of the stored transactions with the given rowids
RECURSIVE TotalOf(_)
TotalOf(S) ==
    IF S = {} THEN 0
    ELSE LET k == CHOOSE k \in S : TRUE
         IN  transactions[k].amount + TotalOf(S \ {k})

RECURSIVE SumSecond(_)
SumSecond(pairs) == IF pairs = <<>> THEN 0 ELSE Head(pairs)[2] + SumSecond(Tail(pairs))

\* the rows newest first: by timestamp descending, and among equal timestamps
\* the row inserted later first
NewestFirst(rows) ==
    CHOOSE p \in [1..Len(rows) -> Range(rows)] :
        \A i \in 1..(Len(rows) - 1) :
            \/ p[i].timestamp > p[i + 1].timestamp
            \/ p[i].timestamp = p[i + 1].timestamp /\ p[i].id > p[i + 1].id

Contains(s, sub) ==
    \E i \in 1..(Len(s) - Len(sub) + 1) : SubSeq(s, i, i + Len(sub) - 1) = sub

IsJsonIgnoringCase(format) ==
    /\ Len(format) = 4
    /\ SubSeq(format, 1, 1) \in {"j", "J"}
    /\ SubSeq(format, 2, 2) \in {"s", "S"}
    /\ SubSeq(format, 3, 3) \in {"o", "O"}
    /\ SubSeq(format, 4, 4) \in {"n", "N"}

\* C1: add_transaction with a category of the category set, followed
\* immediately by list_transactions of that category, returns a listing whose
\* first entry is the record just added, equal timestamps included.
C1_AddThenListNewestFirst ==
    [][ ( /\ IsAdd
          /\ ret = TransactionAddedMsg(call.arg[1], call.arg[2], call.arg[3])
          /\ call'.op = "list_transactions"
          /\ call'.arg[1] = <<call.arg[2]>> )
        => ( /\ Len(locals'.transactions) >= 1
             /\ locals'.transactions[1] = call.arg ) ]_vars

\* C2: for a category that is not in the category set, the empty string
\* included, add_transaction and list_transactions return the
\* invalid-category message with the joined category names and leave the
\* categories and transactions relations unchanged.
C2_InvalidCategoryRejected ==
    [][ ( \/ /\ call'.op = "add_transaction"
             /\ call'.arg[2] \notin Range(categories)
          \/ /\ call'.op = "list_transactions"
             /\ call'.arg[1] # <<>>
             /\ call'.arg[1][1] \notin Range(categories) )
        => ( /\ ret' = "Invalid category. Please use one of: " \o Join(categories, ", ")
             /\ categories' = categories
             /\ transactions' = transactions ) ]_vars

\* C3: list_transactions returns exactly the stored transactions of the filter
\* (all of them without a filter), each once, by timestamp descending and,
\* among equal timestamps, the transaction inserted later first.
C3_ListNewestFirst ==
    ( /\ IsList
      /\ (call.arg[1] = <<>> \/ call.arg[1][1] \in Range(categories)) )
    => locals.transactions =
          Columns(NewestFirst(
              IF call.arg[1] = <<>> THEN transactions
              ELSE LET Matches(t) == t.category = call.arg[1][1]
                   IN  SelectSeq(transactions, Matches)))

\* C4: get_balance returns "No transactions recorded yet." exactly when no
\* transaction is stored; otherwise the reported total is the sum of all stored
\* amounts and the breakdown has one line for exactly the categories with a
\* stored transaction, each with the sum of its amounts, and these sums add up
\* to the total.
C4_Balance ==
    call.op = "get_balance" =>
        /\ (ret = "No transactions recorded yet.") <=> (transactions = <<>>)
        /\ transactions # <<>> =>
             LET bc == locals.by_category
                 used == {transactions[k].category : k \in 1..Len(transactions)}
                 all == TotalOf(1..Len(transactions))
             IN  /\ locals.total = all
                 /\ {bc[i][1] : i \in 1..Len(bc)} = used
                 /\ Len(bc) = Cardinality(used)
                 /\ \A i \in 1..Len(bc) : bc[i][2] = TotalOf(Stored(bc[i][1]))
                 /\ SumSecond(bc) = all
                 /\ ret = Join(<<"Current balance: $" \o FormatMoney(all),
                                 "\nBreakdown by category:">>
                               \o [i \in 1..Len(bc) |->
                                     bc[i][1] \o ": $" \o FormatMoney(bc[i][2])],
                               "\n")

C4_Witness ==
    /\ call.op = "get_balance"
    /\ Len(transactions) = 2
    /\ \E i \in 1..Len(locals.by_category) : locals.by_category[i][2] = 0

\* C5: add_category adds the name only when it is not empty, not made of
\* whitespace only and not already present (exact match); an empty or
\* whitespace-only name gets the empty-name message, a present name the
\* "already exists" message, both leave the categories unchanged; no two
\* categories ever share a name.
C5_AddCategory ==
    /\ [](\A i, j \in 1..Len(categories) : categories[i] = categories[j] => i = j)
    /\ [][ call'.op = "add_category" =>
             LET name == call'.arg[1] IN
             IF \A i \in 1..Len(name) : SubSeq(name, i, i) \in Whitespace
             THEN /\ ret' = "Category name cannot be empty."
                  /\ categories' = categories
             ELSE IF \E i \in 1..Len(categories) : categories[i] = name
             THEN /\ ret' = "Category '" \o name \o "' already exists."
                  /\ categories' = categories
             ELSE categories' = Append(categories, name) ]_vars

C5_Witness ==
    /\ call.op = "add_category"
    /\ call.arg[1] = "food"
    /\ ret = "Category 'food' added successfully."
    /\ "Food" \in Range(categories)
    /\ "food" \in Range(categories)

C7_NoResultsNamesCategory ==
    IsList =>
        LET category == call.arg[1] IN
        /\ ( /\ category # <<>>
             /\ category[1] \in Range(categories)
             /\ Stored(category[1]) = {} )
           => ( /\ Contains(ret, category[1])
                /\ ret # InvalidCategoryMsg(categories) )
        /\ (category = <<>> /\ transactions = <<>>)
           => ret = "No transactions recorded yet."

\* C7 as amended: list_transactions with a valid filter that matches no stored
\* transaction returns the fixed message "No transactions found.", which does
\* not name the category; without a filter and without stored transactions it
\* returns "No transactions recorded yet."; neither is the invalid-category
\* message.
C7_EmptyOutcomes ==
    IsList =>
        LET category == call.arg[1] IN
        /\ ( /\ category # <<>>
             /\ category[1] \in Range(categories)
             /\ Stored(category[1]) = {} )
           => ( /\ ret = "No transactions found."
                /\ ~Contains(ret, category[1])
                /\ ret # InvalidCategoryMsg(categories) )
        /\ (category = <<>> /\ transactions = <<>>)
           => ( /\ ret = "No transactions recorded yet."
                /\ ret # InvalidCategoryMsg(categories) )

C7_Witness ==
    /\ IsList
    /\ call.arg[1] = <<"food">>
    /\ "food" \in Range(categories)
    /\ transactions # <<>>
    /\ ret = "No transactions found."

\* C8: the category of every stored transaction is in the category set.
C8_CategoriesValid ==
    \A k \in 1..Len(transactions) :
        \E i \in 1..Len(categories) : categories[i] = transactions[k].category

C8_Witness ==
    /\ IsAdd
    /\ call.arg[2] = "food"
    /\ ret = TransactionAddedMsg(call.arg[1], call.arg[2], call.arg[3])
    /\ transactions # <<>>
    /\ transactions[Len(transactions)].category = "food"

\* C9: a successful add_transaction appends exactly one record and changes no
\* existing one; every other call leaves the stored transactions as they are;
\* a repeated initialize_db leaves the category set as it is.
C9_AppendOnly ==
    [][ /\ IF call'.op = "add_transaction" /\ call'.arg[2] \in Range(categories)
           THEN /\ Len(transactions') = Len(transactions) + 1
                /\ SubSeq(transactions', 1, Len(transactions)) = transactions
                /\ LET new == transactions'[Len(transactions')] IN
                     <<new.amount, new.category, new.description>> = call'.arg
           ELSE transactions' = transactions
        /\ call'.op = "initialize_db" => categories' = categories ]_vars

C9_Witness ==
    /\ call.op = "initialize_db"
    /\ transactions # <<>>
    /\ Len(categories) > Len(default_categories)

\* C10: every call closes every connection it opened before it returns, so
\* no connection is open after any sequence of calls.
C10_NoOpenConnections == open_conns = 0

====
